---- MODULE Spec2Model ----
(***************************************************************************)
(* The mp_* adapters of plato around the MuPDF fz_* calls.  Both source    *)
(* files consist of the WRAP macro and a list of its instantiations:       *)
(*                                                                         *)
(*   ret_type mp_name(fz_context *ctx, params) {                           *)
(*       ret_type ret;                                                     *)
(*       fz_try (ctx) { ret = call; }                                      *)
(*       fz_catch (ctx) { ret = failure_val; }                             *)
(*       return ret;                                                       *)
(*   }                                                                     *)
(*                                                                         *)
(* One adapter call is followed through its program positions: entry,      *)
(* fz_try, the library call (which returns or throws), fz_catch, return.   *)
(* The library is an opaque collaborator: its answer to a call is a        *)
(* nondeterministic choice, deterministic only in the sense that the same  *)
(* call on the same library state gets the same answer.                    *)
(***************************************************************************)
EXTENDS Integers, Sequences, FiniteSets, TLC

\* ---------------------------------------------------------------- bounds
MaxHandle == 1      \* pointer values are 0 (NULL) .. MaxHandle
MaxInt == 0         \* int values are -1 .. MaxInt
MaxDepth == 1       \* guarded regions the caller has open on ctx at entry
MaxLibVer == 1      \* the library's state is a version 0 .. MaxLibVer

\* ------------------------------------------------------------- C values
NULL == 0

FZ_ERROR_NONE == "FZ_ERROR_NONE"

\* the kinds of failure fz_throw can carry
Causes == {"FZ_ERROR_SYSTEM", "FZ_ERROR_FORMAT", "FZ_ERROR_MEMORY", "FZ_ERROR_ARGUMENT"}

\* the caller's fz_context handle; not NULL, fz_try dereferences ctx
Ctxs == {1}

\* the values of a C type (pointers and structs are value ids, int is a range)
TypeVals(t) == IF t = "int" THEN -1 .. MaxInt ELSE 0 .. MaxHandle

P(t, n) == [type |-> t, name |-> n]

\* ------------------------------------------- the WRAP instantiations
\* src/mupdf_wrapper/mupdf_wrapper.c
WrapperOps ==
  << [name |-> "open_document", ret_type |-> "fz_document*", failure_val |-> NULL,
      callee |-> "fz_open_document", call_args |-> <<"ctx", "path">>,
      params |-> << P("char *", "path") >>],
     [name |-> "open_document_with_stream", ret_type |-> "fz_document*", failure_val |-> NULL,
      callee |-> "fz_open_document_with_stream", call_args |-> <<"ctx", "kind", "stream">>,
      params |-> << P("const char *", "kind"), P("fz_stream *", "stream") >>],
     [name |-> "load_page", ret_type |-> "fz_page*", failure_val |-> NULL,
      callee |-> "fz_load_page", call_args |-> <<"ctx", "doc", "pageno">>,
      params |-> << P("fz_document *", "doc"), P("int", "pageno") >>],
     [name |-> "load_outline", ret_type |-> "fz_outline*", failure_val |-> NULL,
      callee |-> "fz_load_outline", call_args |-> <<"ctx", "doc">>,
      params |-> << P("fz_document *", "doc") >>],
     [name |-> "load_links", ret_type |-> "fz_link*", failure_val |-> NULL,
      callee |-> "fz_load_links", call_args |-> <<"ctx", "page">>,
      params |-> << P("fz_page *", "page") >>],
     [name |-> "count_pages", ret_type |-> "int", failure_val |-> -1,
      callee |-> "fz_count_pages", call_args |-> <<"ctx", "doc">>,
      params |-> << P("fz_document *", "doc") >>],
     [name |-> "page_number_from_location", ret_type |-> "int", failure_val |-> -1,
      callee |-> "fz_page_number_from_location", call_args |-> <<"ctx", "doc", "loc">>,
      params |-> << P("fz_document *", "doc"), P("fz_location", "loc") >>],
     [name |-> "new_pixmap_from_page", ret_type |-> "fz_pixmap*", failure_val |-> NULL,
      callee |-> "fz_new_pixmap_from_page",
      call_args |-> <<"ctx", "page", "mat", "cs", "alpha">>,
      params |-> << P("fz_page *", "page"), P("fz_matrix", "mat"),
                    P("fz_colorspace *", "cs"), P("int", "alpha") >>],
     [name |-> "new_stext_page_from_page", ret_type |-> "fz_stext_page*", failure_val |-> NULL,
      callee |-> "fz_new_stext_page_from_page", call_args |-> <<"ctx", "page", "options">>,
      params |-> << P("fz_page *", "page"), P("fz_stext_options *", "options") >>] >>

\* (variant: count_pages of the second file answers 0 on failure)
MupdfOpsZeroCount ==
  << [name |-> "open_document", ret_type |-> "fz_document*", failure_val |-> NULL,
      callee |-> "fz_open_document", call_args |-> <<"ctx", "path">>,
      params |-> << P("char *", "path") >>],
     [name |-> "count_pages", ret_type |-> "int", failure_val |-> 0,
      callee |-> "fz_count_pages", call_args |-> <<"ctx", "doc">>,
      params |-> << P("fz_document *", "doc") >>],
     [name |-> "load_outline", ret_type |-> "fz_outline*", failure_val |-> NULL,
      callee |-> "fz_load_outline", call_args |-> <<"ctx", "doc">>,
      params |-> << P("fz_document *", "doc") >>],
     [name |-> "load_page", ret_type |-> "fz_page*", failure_val |-> NULL,
      callee |-> "fz_load_page", call_args |-> <<"ctx", "doc", "pageno">>,
      params |-> << P("fz_document *", "doc"), P("int", "pageno") >>] >>

\* src/src/wrapper/mupdf.c
MupdfOps ==
  << [name |-> "open_document", ret_type |-> "fz_document*", failure_val |-> NULL,
      callee |-> "fz_open_document", call_args |-> <<"ctx", "path">>,
      params |-> << P("char *", "path") >>],
     [name |-> "count_pages", ret_type |-> "int", failure_val |-> -1,
      callee |-> "fz_count_pages", call_args |-> <<"ctx", "doc">>,
      params |-> << P("fz_document *", "doc") >>],
     [name |-> "load_outline", ret_type |-> "fz_outline*", failure_val |-> NULL,
      callee |-> "fz_load_outline", call_args |-> <<"ctx", "doc">>,
      params |-> << P("fz_document *", "doc") >>],
     [name |-> "load_page", ret_type |-> "fz_page*", failure_val |-> NULL,
      callee |-> "fz_load_page", call_args |-> <<"ctx", "doc", "pageno">>,
      params |-> << P("fz_document *", "doc"), P("int", "pageno") >>] >>

WRAPPER_C == "mupdf_wrapper/mupdf_wrapper.c"
MUPDF_C == "src/wrapper/mupdf.c"
Files == {WRAPPER_C, MUPDF_C}

Table(file) == IF file = WRAPPER_C THEN WrapperOps ELSE MupdfOps

Range(s) == {s[i] : i \in 1 .. Len(s)}

\* the operations a file defines, and the instantiation of one of them
Defined(file) == {e.name : e \in Range(Table(file))}
Entry(file, op) == CHOOSE e \in Range(Table(file)) : e.name = op

\* every argument tuple the parameter list admits
ArgTuples(params) ==
  {a \in [1 .. Len(params) -> -1 .. (IF MaxInt > MaxHandle THEN MaxInt ELSE MaxHandle)] :
      \A i \in 1 .. Len(params) : a[i] \in TypeVals(params[i].type)}

\* the value an identifier of the call expression has inside mp_name
Lookup(e, ctx, args, id) ==
  IF id = "ctx" THEN ctx
  ELSE args[CHOOSE i \in 1 .. Len(e.params) : e.params[i].name = id]

\* (variant: the operation's arguments are passed in reverse order)
CallArgsReversed(e, ctx, args) ==
  [i \in 1 .. Len(e.call_args) |->
     IF i = 1 THEN ctx ELSE args[Len(args) - (i - 2)]]

\* the argument list the call expression passes to the library
CallArgs(e, ctx, args) ==
  [i \in 1 .. Len(e.call_args) |-> Lookup(e, ctx, args, e.call_args[i])]

\* ------------------------------------------------------------------ state
VARIABLES
  pc,       \* position of the adapter call in progress
  cur,      \* the call in progress or last returned: file, op, ctx, args, entry state
  ret,      \* the local variable ret of mp_name
  stack,    \* the exception stack of ctx (ctx->error), bottom first
  out,      \* what the library call did: returned r, or threw code
  fwd,      \* what the library received: callee, argument list, number of invocations
  libver,   \* the library's state
  prev      \* the adapter call before cur, as the caller saw it

vars == <<pc, cur, ret, stack, out, fwd, libver, prev>>

NoCall == [file |-> "", op |-> "", ctx |-> 0, args |-> <<>>, lib |-> 0, depth |-> 0]
NoOut == [thrown |-> FALSE, code |-> FZ_ERROR_NONE, r |-> 0]
NoFwd == [callee |-> "", args |-> <<>>, n |-> 0, lib |-> 0, guarded |-> FALSE]
NoPrev == [valid |-> FALSE, failed |-> FALSE, sameCall |-> FALSE, lib |-> 0,
           out |-> NoOut, ret |-> 0]

Frame(owner) == [owner |-> owner, code |-> FZ_ERROR_NONE]

\* d regions of the caller, none of which a failure has arrived in
CallerFrames(d) == [i \in 1 .. d |-> Frame("caller")]

CurEntry == Entry(cur.file, cur.op)

Init ==
  /\ pc = "idle"
  /\ cur = NoCall
  /\ ret = 0
  /\ stack = <<>>
  /\ out = NoOut
  /\ fwd = NoFwd
  /\ libver = 0
  /\ prev = NoPrev

\* --------------------------------------------------- fz_try / fz_catch
\* fz_try (ctx): fz_push_try opens a region on top of ctx's exception stack
FzPushTry(stk) == Append(stk, Frame("mp"))

\* fz_throw: the failure is recorded in the innermost open region
FzThrow(stk, code) == [stk EXCEPT ![Len(stk)].code = code]

\* fz_catch (ctx): fz_do_catch closes the innermost region and tells whether
\* a failure arrived in it
FzDoCatch(stk) == stk[Len(stk)].code # FZ_ERROR_NONE

\* (variant: fz_catch leaves the region open)
FzPopMissing(stk) == stk

FzPop(stk) == SubSeq(stk, 1, Len(stk) - 1)

\* (variant: the catch block does not assign ret)
AfterCatchNoAssign(e, stk, r) == r

\* (variant: a zero result is taken for a failure)
AfterCatchZeroFails(e, stk, r) == IF FzDoCatch(stk) \/ r = 0 THEN e.failure_val ELSE r

\* (variant: every operation answers -1 on failure)
AfterCatchMinusOne(e, stk, r) == IF FzDoCatch(stk) THEN -1 ELSE r

\* (variant: a failure of the call before sticks)
AfterCatchSticky(e, stk, r) ==
  IF FzDoCatch(stk) \/ (prev.valid /\ prev.failed) THEN e.failure_val ELSE r

\* (variant: out-of-memory gets a sentinel of its own)
AfterCatchByCause(e, stk, r) ==
  IF FzDoCatch(stk)
  THEN IF stk[Len(stk)].code = "FZ_ERROR_MEMORY" THEN e.failure_val - 1 ELSE e.failure_val
  ELSE r

\* ret after "fz_catch (ctx) { ret = failure_val; }": the sentinel when a
\* failure was caught, else what the try block left in ret
AfterCatch(e, stk, r) == IF FzDoCatch(stk) THEN e.failure_val ELSE r

\* (variant: the call expression is evaluated a second time)
InvokeTwice(f, e, ctx, args, lib, stk) ==
  [callee |-> e.callee, args |-> CallArgs(e, ctx, args), n |-> f.n + 2, lib |-> lib,
   guarded |-> stk # <<>> /\ stk[Len(stk)].owner = "mp"]

\* the evaluation of the call expression, as the library sees it
Invoke(f, e, ctx, args, lib, stk) ==
  [callee |-> e.callee, args |-> CallArgs(e, ctx, args), n |-> f.n + 1, lib |-> lib,
   guarded |-> stk # <<>> /\ stk[Len(stk)].owner = "mp"]

\* the library's next state: the call may or may not change it
LibAfter(bump) == IF bump /\ libver < MaxLibVer THEN libver + 1 ELSE libver

\* the library is deterministic: the same call on the same library state
\* gets the answer the call before got
Deterministic(o) == prev.valid /\ prev.sameCall /\ prev.lib = cur.lib => o = prev.out

\* the values the call in progress can return: those of its ret_type
RetVals == IF pc = "in_try" THEN TypeVals(CurEntry.ret_type) ELSE {}

\* ---------------------------------------------------------------- steps
\* entry of mp_op of file with ctx and args, the caller holding the regions
\* of stack open on ctx; the local ret is uninitialised and holds whatever junk
Enter(file, op, ctx, args, junk) ==
  /\ pc' = "entered"
  /\ cur' = [file |-> file, op |-> op, ctx |-> ctx, args |-> args,
             lib |-> libver, depth |-> Len(stack)]
  /\ ret' = junk
  /\ out' = NoOut
  /\ fwd' = NoFwd
  /\ UNCHANGED <<stack, libver>>

\* the caller calls an adapter
Call(file, op, ctx, args, junk) ==
  /\ pc = "idle"
  /\ ~prev.sameCall
  /\ Enter(file, op, ctx, args, junk)
  /\ UNCHANGED prev

\* the caller repeats the call it made before, through either file
CallAgain(file, junk) ==
  /\ pc = "idle"
  /\ prev.sameCall
  /\ cur.op \in Defined(file)
  /\ Enter(file, cur.op, cur.ctx, cur.args, junk)
  /\ UNCHANGED prev

\* fz_try (ctx) {
FzTry ==
  /\ pc = "entered"
  /\ pc' = "in_try"
  /\ stack' = FzPushTry(stack)
  /\ UNCHANGED <<cur, ret, out, fwd, libver, prev>>

\* ret = call;  and the call returns r
FzCallReturns(r, bump) ==
  /\ pc = "in_try"
  /\ LET o == [thrown |-> FALSE, code |-> FZ_ERROR_NONE, r |-> r]
     IN /\ Deterministic(o)
        /\ out' = o
  /\ ret' = r
  /\ libver' = LibAfter(bump)
  /\ fwd' = Invoke(fwd, CurEntry, cur.ctx, cur.args, libver', stack)
  /\ pc' = "after_try"
  /\ UNCHANGED <<cur, stack, prev>>

\* ret = call;  and the call throws: control leaves the try block without
\* assigning ret and arrives in the innermost open region of ctx
FzCallThrows(code, bump) ==
  /\ pc = "in_try"
  /\ LET o == [thrown |-> TRUE, code |-> code, r |-> 0]
     IN /\ Deterministic(o)
        /\ out' = o
  /\ libver' = LibAfter(bump)
  /\ fwd' = Invoke(fwd, CurEntry, cur.ctx, cur.args, libver', stack)
  /\ IF stack = <<>>
     THEN /\ pc' = "aborted"          \* uncaught: the library exits the process
          /\ stack' = stack
     ELSE /\ stack' = FzThrow(stack, code)
          /\ pc' = IF stack[Len(stack)].owner = "mp" THEN "after_try" ELSE "escaped"
  /\ UNCHANGED <<cur, ret, prev>>

\* } fz_catch (ctx) { ret = failure_val; }
FzCatch ==
  /\ pc = "after_try"
  /\ pc' = "catch_done"
  /\ ret' = AfterCatch(CurEntry, stack, ret)
  /\ stack' = FzPop(stack)
  /\ UNCHANGED <<cur, out, fwd, libver, prev>>

\* return ret;
Return ==
  /\ pc = "catch_done"
  /\ pc' = "returned"
  /\ UNCHANGED <<cur, ret, stack, out, fwd, libver, prev>>

\* the caller goes on with the returned value; the activation of mp_op,
\* with its parameters and ret, is gone
Resume ==
  /\ pc = "returned"
  /\ pc' = "idle"
  /\ cur' = NoCall
  /\ ret' = 0
  /\ out' = NoOut
  /\ fwd' = NoFwd
  /\ UNCHANGED <<stack, libver, prev>>

\* the caller goes on and remembers how the call went: whether it failed
\* and, when it is going to repeat the call (again), the call, the library
\* state it was made on, the library's answer and the value returned
Remember(again) ==
  /\ pc = "returned"
  /\ pc' = "idle"
  /\ prev' = IF again
             THEN [valid |-> TRUE, failed |-> out.thrown, sameCall |-> TRUE,
                   lib |-> cur.lib, out |-> out, ret |-> ret]
             ELSE [valid |-> TRUE, failed |-> out.thrown, sameCall |-> FALSE,
                   lib |-> 0, out |-> NoOut, ret |-> 0]
  /\ cur' = IF again THEN [cur EXCEPT !.file = "", !.lib = 0, !.depth = 0] ELSE NoCall
  /\ ret' = 0
  /\ out' = NoOut
  /\ fwd' = NoFwd
  /\ UNCHANGED <<stack, libver>>

\* between adapter calls the caller opens a region of its own on ctx
CallerTry ==
  /\ pc = "idle"
  /\ Len(stack) < MaxDepth
  /\ stack' = Append(stack, Frame("caller"))
  /\ UNCHANGED <<pc, cur, ret, out, fwd, libver, prev>>

\* between adapter calls the caller closes its innermost region
CallerEndTry ==
  /\ pc = "idle"
  /\ stack # <<>>
  /\ stack[Len(stack)].owner = "caller"
  /\ stack' = FzPop(stack)
  /\ UNCHANGED <<pc, cur, ret, out, fwd, libver, prev>>

\* between adapter calls the library's state may change
LibChange ==
  /\ pc = "idle"
  /\ libver < MaxLibVer
  /\ libver' = libver + 1
  /\ UNCHANGED <<pc, cur, ret, stack, out, fwd, prev>>

\* the inputs of an adapter call: any defined operation of either file, any
\* context, any arguments of the parameter types, any junk in ret
Next ==
  \/ \E file \in Files : \E op \in Defined(file) : \E ctx \in Ctxs :
       \E args \in ArgTuples(Entry(file, op).params) :
         \E junk \in TypeVals(Entry(file, op).ret_type) :
           Call(file, op, ctx, args, junk)
  \/ FzTry
  \/ \E r \in RetVals : \E bump \in BOOLEAN : FzCallReturns(r, bump)
  \/ \E code \in Causes : \E bump \in BOOLEAN : FzCallThrows(code, bump)
  \/ FzCatch
  \/ Return
  \/ Resume
  \/ CallerTry
  \/ CallerEndTry
  \/ LibChange

\* sequences of adapter calls in which the caller remembers the call before
NextHist ==
  \/ \E file \in Files : \E op \in Defined(file) : \E ctx \in Ctxs :
       \E args \in ArgTuples(Entry(file, op).params) :
         \E junk \in TypeVals(Entry(file, op).ret_type) :
           Call(file, op, ctx, args, junk)
  \/ \E file \in Files : \E junk \in -1 .. MaxHandle + MaxInt :
       /\ pc = "idle" /\ prev.sameCall /\ cur.op \in Defined(file)
       /\ junk \in TypeVals(Entry(file, cur.op).ret_type)
       /\ CallAgain(file, junk)
  \/ FzTry
  \/ \E r \in RetVals : \E bump \in BOOLEAN : FzCallReturns(r, bump)
  \/ \E code \in Causes : \E bump \in BOOLEAN : FzCallThrows(code, bump)
  \/ FzCatch
  \/ Return
  \/ \E again \in BOOLEAN : Remember(again)
  \/ CallerTry
  \/ CallerEndTry
  \/ LibChange

Spec == Init /\ [][Next]_vars

HistSpec == Init /\ [][NextHist]_vars

\* the adapter is straight-line code: once entered, each step is taken
LiveSpec ==
  /\ Spec
  /\ WF_vars(FzTry)
  /\ WF_vars(\E r \in RetVals : \E bump \in BOOLEAN : FzCallReturns(r, bump))
  /\ WF_vars(\E code \in Causes : \E bump \in BOOLEAN : FzCallThrows(code, bump))
  /\ WF_vars(FzCatch)
  /\ WF_vars(Return)

\* ----------------------------------------------------------------- claims
\* the sentinels as the operations table of the specification declares them
DeclaredSentinel(op) ==
  IF op \in {"count_pages", "page_number_from_location"} THEN -1 ELSE NULL

Returned == pc = "returned"
Failed == out.thrown

\* C1: when the underlying fz call signals failure, mp_X returns through the
\* normal return path with the declared sentinel (NULL for the seven handle
\* operations, -1 for count_pages and page_number_from_location), and the
\* failure reaches neither a region of the caller nor the process.
C1_FailureGivesSentinel ==
  /\ pc \notin {"escaped", "aborted"}
  /\ \A i \in 1 .. Len(stack) :
       stack[i].owner = "caller" => stack[i].code = FZ_ERROR_NONE
  /\ (Returned /\ Failed) => ret = DeclaredSentinel(cur.op)

C1_Witness ==
  /\ Returned /\ Failed
  /\ cur.op = "page_number_from_location"
  /\ out.code = "FZ_ERROR_FORMAT"
  /\ ret = -1

\* C2: when the underlying fz call completes normally with result r, mp_X
\* returns exactly r, whatever value of the return type r is.
C2_PassThrough ==
  (Returned /\ ~Failed) => ret = out.r

C2_Witness ==
  /\ Returned /\ ~Failed
  /\ cur.op = "count_pages"
  /\ out.r = 0
  /\ ret = 0

\* C3 (as claimed): the return value is the sentinel if and only if the
\* underlying call signaled failure.
C3_SentinelIffFailure ==
  Returned => (ret = DeclaredSentinel(cur.op) <=> Failed)

\* C3 (amended): the return value is the sentinel if and only if the
\* underlying call signaled failure or completed normally with a result
\* equal to the sentinel; a non-sentinel return is the real result of a
\* normal completion.
C3_SentinelIffFailureOrSentinelResult ==
  Returned =>
    /\ ret = DeclaredSentinel(cur.op) <=> (Failed \/ out.r = DeclaredSentinel(cur.op))
    /\ ret # DeclaredSentinel(cur.op) => ~Failed /\ ret = out.r

C3_Witness ==
  /\ Returned /\ ~Failed
  /\ cur.op = "load_links"
  /\ ret = NULL

\* C4 (as claimed): each operation defined in one file is also defined in
\* the other, with the same return type, sentinel, underlying call and
\* argument list.
C4_SameOperations ==
  pc # "idle" =>
    \A f \in Files : cur.op \in Defined(f) /\ Entry(f, cur.op) = CurEntry

\* C4 (amended): each operation defined in src/wrapper/mupdf.c is also
\* defined in mupdf_wrapper/mupdf_wrapper.c with the same return type,
\* sentinel, underlying call and argument list, and for these operations
\* either file's adapter passes the same call to the library and returns the
\* same value for the same library outcome.
C4_CommonOperationsAgree ==
  /\ Defined(MUPDF_C) \subseteq Defined(WRAPPER_C)
  /\ (Returned /\ cur.op \in Defined(MUPDF_C)) =>
       \A f \in Files :
         LET e == Entry(f, cur.op)
         IN /\ e = CurEntry
            /\ fwd.callee = e.callee
            /\ fwd.args = CallArgs(e, cur.ctx, cur.args)
            /\ ret = IF Failed THEN e.failure_val ELSE out.r

C4_Witness ==
  /\ Returned /\ Failed
  /\ cur.file = WRAPPER_C
  /\ cur.op = "load_page"
  /\ cur.op \in Defined(MUPDF_C)

\* C5: the adapter keeps no state across calls: the same operation called
\* again with the same inputs on an unchanged library state returns what it
\* returned before, and what a call returns for a given library outcome
\* does not depend on the outcome of the call before it.
C5_SameCallSameResult ==
  (Returned /\ prev.valid) =>
    /\ (prev.sameCall /\ prev.lib = cur.lib) => ret = prev.ret
    /\ ret = IF Failed THEN CurEntry.failure_val ELSE out.r

C5_Witness ==
  /\ Returned /\ prev.valid
  /\ prev.sameCall /\ prev.lib = cur.lib
  /\ ~Failed
  /\ ret # CurEntry.failure_val

\* C6: mp_X calls fz_X with the context it received first and its remaining
\* arguments unchanged and in order, and the library's state changes only
\* by the library call itself.
C6_ForwardsUnchanged ==
  /\ pc \in {"after_try", "catch_done", "returned"} =>
       /\ fwd.callee = "fz_" \o cur.op
       /\ fwd.args = <<cur.ctx>> \o cur.args
  /\ pc \in {"entered", "in_try"} => fwd.n = 0 /\ libver = cur.lib
  /\ pc \in {"after_try", "catch_done"} => libver = fwd.lib

C6_Witness ==
  /\ Returned
  /\ cur.op = "new_pixmap_from_page"
  /\ cur.args = <<1, 0, 1, -1>>
  /\ fwd.args = <<cur.ctx, 1, 0, 1, -1>>

\* C7: the value returned on failure does not depend on the failure's cause:
\* two failing calls of the same operation with the same inputs return the
\* same value whatever the two causes.
C7_CauseIndependent ==
  (Returned /\ Failed /\ prev.valid /\ prev.sameCall /\ prev.out.thrown) =>
    ret = prev.ret

C7_Witness ==
  /\ Returned /\ Failed /\ prev.valid /\ prev.sameCall /\ prev.out.thrown
  /\ prev.out.code = "FZ_ERROR_SYSTEM"
  /\ out.code = "FZ_ERROR_MEMORY"
  /\ ret = prev.ret

C10_RegionsBalanced ==
  /\ pc \notin {"escaped", "aborted"}
  /\ pc \in {"in_try", "after_try"} =>
       /\ Len(stack) = cur.depth + 1
       /\ stack[Len(stack)].owner = "mp"
       /\ SubSeq(stack, 1, cur.depth) = CallerFrames(cur.depth)
  /\ pc = "catch_done" => stack = CallerFrames(cur.depth)
  /\ pc = "returned" => stack = CallerFrames(cur.depth)
  /\ pc \in {"idle", "entered"} => stack = CallerFrames(Len(stack))

C10_Witness ==
  /\ Returned /\ Failed
  /\ cur.depth >= 1
  /\ stack = CallerFrames(cur.depth)

====
